---- MODULE Spec2Model ----
(***************************************************************************)
(* One-dimensional thermal-hydraulic design of a CERMET reactor core:      *)
(* optimization/ht_functions.py.  The Flow object, the pipe-flow           *)
(* correlations, the bounded search over the fuel fraction and the         *)
(* pressure-drop adjustment loop.                                          *)
(*                                                                         *)
(* Python floats are modelled as decimal floating point numbers with Prec  *)
(* significant digits, [m |-> mantissa, e |-> exponent], value m * 10^e,   *)
(* every arithmetic operation rounding its exact result to nearest, ties   *)
(* to even, as IEEE-754 arithmetic does.                                   *)
(***************************************************************************)
EXTENDS Integers, Sequences, FiniteSets, TLC

\* significant decimal digits carried by a float
Prec == 4

Pow10(n) ==
    <<1, 10, 100, 1000, 10000, 100000, 1000000, 10000000, 100000000,
      1000000000>>[n + 1]

Abs(n) == IF n < 0 THEN -n ELSE n

Sgn(n) == IF n < 0 THEN -1 ELSE 1

\* number of decimal digits of a natural number below 2^31
NumDigits(n) ==
    IF n < 100000
    THEN IF n < 100 THEN (IF n < 10 THEN 1 ELSE 2)
         ELSE IF n < 1000 THEN 3 ELSE IF n < 10000 THEN 4 ELSE 5
    ELSE IF n < 10000000 THEN (IF n < 1000000 THEN 6 ELSE 7)
         ELSE IF n < 100000000 THEN 8 ELSE IF n < 1000000000 THEN 9 ELSE 10

Zero == [m |-> 0, e |-> 0]

\* the float of sign sg and mantissa q, which rounding may have carried to 10^Prec
Pack(sg, q, e) ==
    IF q = Pow10(Prec) THEN [m |-> sg * Pow10(Prec - 1), e |-> e + 1]
    ELSE [m |-> sg * q, e |-> e]

\* round q + r/p to an integer: to nearest, ties to even; a sticky tail breaks a tie
RoundOff(sg, q, r, p, e, sticky) ==
    Pack(sg,
         IF 2 * r > p \/ (2 * r = p /\ (sticky \/ q % 2 = 1)) THEN q + 1 ELSE q,
         e)

\* bring a mantissa with d digits too many (too few when d < 0) to Prec digits
Shift(m, e, sticky, d) ==
    IF d <= 0 THEN [m |-> m * Pow10(-d), e |-> e + d]
    ELSE RoundOff(Sgn(m), Abs(m) \div Pow10(d), Abs(m) % Pow10(d), Pow10(d),
                  e + d, sticky)

\* round the exact value m * 10^e (plus a non-zero tail when sticky) to Prec digits
Norm(m, e, sticky) ==
    IF m = 0 THEN Zero ELSE Shift(m, e, sticky, NumDigits(Abs(m)) - Prec)

\* a float literal: the decimal m * 10^e rounded to the format
F(m, e) == Norm(m, e, FALSE)

One == [m |-> 1000, e |-> -3]

Two == [m |-> 2000, e |-> -3]

FNeg(a) == [m |-> -a.m, e |-> a.e]

FAdd(a, b) ==
    IF a.m = 0 THEN b
    ELSE IF b.m = 0 THEN a
    ELSE IF a.e - b.e > Prec + 1 THEN a
    ELSE IF b.e - a.e > Prec + 1 THEN b
    ELSE IF a.e >= b.e THEN Norm(a.m * Pow10(a.e - b.e) + b.m, b.e, FALSE)
    ELSE Norm(b.m * Pow10(b.e - a.e) + a.m, a.e, FALSE)

FSub(a, b) == FAdd(a, FNeg(b))

FMul(a, b) == Norm(a.m * b.m, a.e + b.e, FALSE)

FDiv(a, b) ==
    Norm(Sgn(a.m) * Sgn(b.m) * ((Abs(a.m) * Pow10(Prec + 1)) \div Abs(b.m)),
         a.e - b.e - (Prec + 1),
         (Abs(a.m) * Pow10(Prec + 1)) % Abs(b.m) # 0)

\* x ** 2
Square(a) == FMul(a, a)

\* the sign of a - b
Cmp(a, b) ==
    IF a.m = 0 THEN -b.m
    ELSE IF b.m = 0 THEN a.m
    ELSE IF a.e - b.e > Prec + 1 THEN a.m
    ELSE IF b.e - a.e > Prec + 1 THEN -b.m
    ELSE IF a.e >= b.e THEN a.m * Pow10(a.e - b.e) - b.m
    ELSE a.m - b.m * Pow10(b.e - a.e)

FLt(a, b) == Cmp(a, b) < 0

FGt(a, b) == Cmp(a, b) > 0

FLe(a, b) == Cmp(a, b) <= 0

FGe(a, b) == Cmp(a, b) >= 0

\* one Newton step towards the square root of n
Newton(n, s) == (s + n \div s) \div 2

\* the floor of the square root of n, given s within one of it
SqrtFix(n, s) ==
    IF s * s > n THEN s - 1 ELSE IF (s + 1) * (s + 1) <= n THEN s + 1 ELSE s

\* floor of the square root of n, 10^7 <= n < 10^9
ISqrt(n) ==
    SqrtFix(n, Newton(n, Newton(n, Newton(n, Newton(n,
                   IF n < 100000000 THEN 6000 ELSE 18000)))))

\* sqrt(n) * 10^e from s = ISqrt(n), s of Prec + 1 digits
SqrtWide(n, s, e) == Norm(s, e, s * s # n)

\* sqrt(n) * 10^e from s = ISqrt(n), s of Prec digits
SqrtNarrow(n, s, e) == Norm(IF n > s * s + s THEN s + 1 ELSE s, e, FALSE)

\* math.sqrt
FSqrt(a) ==
    IF a.m = 0 THEN Zero
    ELSE IF a.e % 2 # 0
    THEN SqrtWide(a.m * Pow10(Prec + 1), ISqrt(a.m * Pow10(Prec + 1)),
                  (a.e - (Prec + 1)) \div 2)
    ELSE SqrtNarrow(a.m * Pow10(Prec), ISqrt(a.m * Pow10(Prec)),
                    (a.e - Prec) \div 2)

\* the integer nearest to a float
FRound(a) ==
    IF a.e >= 0 THEN a.m * Pow10(a.e)
    ELSE IF -a.e > Prec THEN 0
    ELSE Sgn(a.m) * ((Abs(a.m) + 5 * Pow10(-a.e - 1)) \div Pow10(-a.e))

\* math.ceil
FCeil(a) ==
    IF a.e >= 0 THEN a
    ELSE IF -a.e > Prec THEN (IF a.m > 0 THEN One ELSE Zero)
    ELSE F(IF a.m % Pow10(-a.e) = 0 THEN a.m \div Pow10(-a.e)
           ELSE a.m \div Pow10(-a.e) + 1, 0)

LN10 == [m |-> 2303, e |-> -3]

\* atanh(z)/z = sum z2^k / (2k+1), z2 = z*z, |z| <= 0.52, by Horner's rule;
\* st = <<the next k, the sum from the terms above k>>
RECURSIVE AtanhSeries(_, _)
AtanhSeries(z2, st) ==
    IF st[1] < 0 THEN st[2]
    ELSE AtanhSeries(z2, <<st[1] - 1,
                           FAdd(FDiv(One, F(2 * st[1] + 1, 0)), FMul(z2, st[2]))>>)

\* 2 atanh(z)
TwoAtanh(z) ==
    FMul(Two, FMul(z, AtanhSeries(Square(z), <<6, FDiv(One, F(15, 0))>>)))

\* ln(y * 10^k), y in [1/sqrt(10), sqrt(10)): k ln 10 + 2 atanh((y-1)/(y+1))
LnReduced(y, k) ==
    FAdd(FMul(F(k, 0), LN10), TwoAtanh(FDiv(FSub(y, One), FAdd(y, One))))

\* math.log, the natural logarithm of a positive float
FLn(x) ==
    IF x.m * x.m >= Pow10(2 * Prec - 1)
    THEN LnReduced([m |-> x.m, e |-> -Prec], x.e + Prec)
    ELSE LnReduced([m |-> x.m, e |-> -(Prec - 1)], x.e + Prec - 1)

\* exp(r) = sum r^n / n!, |r| <= 1.16, by Horner's rule;
\* st = <<the next n, the sum from the terms above n>>
RECURSIVE ExpSeries(_, _)
ExpSeries(r, st) ==
    IF st[1] = 0 THEN st[2]
    ELSE ExpSeries(r, <<st[1] - 1,
                        FAdd(One, FMul(FDiv(r, F(st[1], 0)), st[2]))>>)

\* s * 10^k
Scale(s, k) == [m |-> s.m, e |-> s.e + k]

\* exp(x) for x = k ln 10 + r
ExpReduced(x, k) == Scale(ExpSeries(FSub(x, FMul(F(k, 0), LN10)), <<10, One>>), k)

\* math.exp
FExp(x) == ExpReduced(x, FRound(FDiv(x, LN10)))

\* x ** y for a non-negative float x
\* (the one element of a set built over {FLn(x)}: the logarithm is computed
\* first, the exponential from its value)
FPow(x, y) ==
    IF x.m = 0 THEN Zero
    ELSE CHOOSE p \in {FExp(FMul(y, l)) : l \in {FLn(x)}} : TRUE

(***************************************************************************)
(* The pipe-flow correlations.                                             *)
(***************************************************************************)

\* the developing-flow factor 1 + (1/LD)**0.7
EntranceFactor(LD) == FAdd(One, FPow(FDiv(One, LD), F(7, -1)))

\* the smooth-tube fit in lnRe = log(Re)
SmoothFit(lnRe) ==
    FMul(FAdd(FAdd(FDiv(F(-1570232, -9), lnRe),
                   FDiv(F(394203137, -9), Square(lnRe))),
              FDiv(F(253415331, -8), FMul(Square(lnRe), lnRe))),
         F(4, 0))

\* friction factor of a smooth tube (Li, Seem and Li)
f_fd_smooth(Re) == SmoothFit(FLn(Re))

\* math.log(x, 10)
Log10(x) == FDiv(FLn(x), FLn(F(10, 0)))

\* A ** (-2)
InvSquare(A) == FDiv(One, Square(A))

\* friction factor of a rough tube (Offor and Alabi)
\* computed inside out: the argument of the inner logarithm, then that of
\* the outer one, then the factor
f_fd_rough(Re, relrough) ==
    CHOOSE f_fd \in
        {InvSquare(FMul(F(-2, 0), FLn(outer))) :
            outer \in
                {FSub(FDiv(relrough, F(371, -2)),
                      FMul(FDiv(F(1975, -3), Re), Log10(inner))) :
                    inner \in
                        {FAdd(FPow(FDiv(relrough, F(393, -2)), F(1092, -3)),
                              FDiv(F(7627, -3), FAdd(Re, F(3959, -1))))}}} :
        TRUE

\* Gnielinski's Nusselt number, f8 = f_fd/8
Gnielinski(Re, Pr, f8) ==
    FDiv(FMul(FMul(f8, FSub(Re, F(1000, 0))), Pr),
         FAdd(One, FMul(FMul(F(127, -1), FSqrt(f8)),
                        FSub(FPow(Pr, FDiv(Two, F(3, 0))), One))))

\* Notter and Sleicher's Nusselt number for low Prandtl numbers
NotterSleicher(Re, Pr) ==
    FAdd(F(48, -1), FMul(FMul(F(156, -4), FPow(Re, F(85, -2))),
                         FPow(Pr, F(93, -2))))

\* the choice between the two by the Prandtl number
Nusselt_L(Pr, NuG, Nu_lp) ==
    IF FLt(Pr, F(5, -1))
    THEN IF FLt(Pr, F(1, -1)) THEN Nu_lp
         ELSE FAdd(Nu_lp, FDiv(FMul(FSub(Pr, F(1, -1)), FSub(NuG, Nu_lp)),
                               F(4, -1)))
    ELSE NuG

\* both results corrected for developing flow
Developing(Nu, f_fd, dev) == <<FMul(Nu, dev), FMul(f_fd, dev)>>

\* the turbulent correlation from the fully developed friction factor
TurbulentFrom(Re, Pr, LD, f_fd) ==
    Developing(Nusselt_L(Pr, Gnielinski(Re, Pr, FDiv(f_fd, F(8, 0))),
                         NotterSleicher(Re, Pr)),
               f_fd, EntranceFactor(LD))

\* f_fd is assigned first, the Nusselt number computed from its value
pipeflow_turbulent(Re, Pr, LD, relrough) ==
    CHOOSE t \in
        {TurbulentFrom(Re, Pr, LD, f_fd) :
            f_fd \in {IF FGt(relrough, F(1, -5)) THEN f_fd_rough(Re, relrough)
                      ELSE f_fd_smooth(Re)}} :
        TRUE

\* the apparent friction factor fR, sx = 3.44/sqrt(x)
Laminar_fR(x, sx) ==
    FAdd(sx, FDiv(FSub(FAdd(FDiv(F(125, -2), FMul(F(4, 0), x)), F(16, 0)), sx),
                  FAdd(One, FMul(F(21, -5), InvSquare(x)))))

Laminar_Nusselt_T(Pr, Gz) ==
    FAdd(F(366, -2),
         FDiv(FMul(FAdd(F(49, -3), FDiv(F(2, -2), Pr)), FPow(Gz, F(112, -2))),
              FAdd(One, FMul(F(65, -3), FPow(Gz, F(7, -1))))))

Laminar_Nusselt_H(Pr, Gz) ==
    FAdd(F(436, -2),
         FDiv(FMul(FAdd(F(1156, -4), FDiv(F(8569, -5), FPow(Pr, F(4, -1)))), Gz),
              FAdd(One, FMul(F(1158, -4), FPow(Gz, F(6, -1))))))

\* the laminar correlation from Gz = Re*Pr/LD and x = LD/Re
LaminarFrom(Re, Pr, Gz, x) ==
    <<Laminar_Nusselt_T(Pr, Gz), Laminar_Nusselt_H(Pr, Gz),
      FDiv(FMul(F(4, 0), Laminar_fR(x, FDiv(F(344, -2), FSqrt(x)))), Re)>>

pipeflow_laminar(Re, Pr, LD, relrough) ==
    LaminarFrom(Re, Pr, FDiv(FMul(Re, Pr), LD), FDiv(LD, Re))

\* lam + (Re-2300)/(3000-2300)*(turb-lam)
Blend(Re, lam, turb) ==
    FAdd(lam, FMul(FDiv(FSub(Re, F(2300, 0)), F(3000 - 2300, 0)), FSub(turb, lam)))

\* the turbulent branch: Nusselt_H = Nusselt_T
Turbulent3(t) == <<t[1], t[1], t[2]>>

\* the transition branch: the mix of turbulent t at 3000 and laminar l at 2300
Transition(Re, t, l) ==
    <<Blend(Re, l[1], t[1]), Blend(Re, l[2], t[1]), Blend(Re, l[3], t[2])>>

pipeflow_nd(Re, Pr, LD, relrough) ==
    IF FGt(Re, F(3000, 0))
    THEN Turbulent3(pipeflow_turbulent(Re, Pr, LD, relrough))
    ELSE IF FLt(Re, F(2300, 0))
    THEN pipeflow_laminar(Re, Pr, LD, relrough)
    ELSE Transition(Re, pipeflow_turbulent(F(3000, 0), Pr, LD, relrough),
                    pipeflow_laminar(F(2300, 0), Pr, LD, relrough))

(***************************************************************************)
(* The Flow object.  A record holds the attributes of one instance; each   *)
(* method is an operator from the object before the call to the object     *)
(* after it, built from one operator per group of assignments.             *)
(***************************************************************************)

Pi == [m |-> 3142, e |-> -3]

\* an attribute the object does not have yet
NoAttr == [m |-> 0, e |-> 1]

\* physical_properties.phys_props, a module ht_functions.py imports:
\* representative fuel, reflector and cladding data
phys_props ==
    [UO2 |-> [T_center |-> F(18475, -1), k_fuel |-> F(36, -1), rho_fuel |-> F(10970, 0)],
     UW |-> [T_center |-> F(18475, -1), k_fuel |-> F(51, 0), rho_fuel |-> F(11500, 0)],
     UN |-> [T_center |-> F(18475, -1), k_fuel |-> F(21, 0), rho_fuel |-> F(11300, 0)],
     Carbon |-> [rho |-> F(1700, 0)],
     Inconel718 |-> [rough |-> F(15, -7)]]

set_A_core(s) == [s EXCEPT !.A_core = FMul(Square(s.core_r), Pi)]

set_areas(s) ==
    [s EXCEPT !.A_flow = FMul(s.A_core, FSub(One, s.fuel_frac)),
              !.A_fuel = FMul(s.A_core, s.fuel_frac),
              !.L = FMul(s.AR, s.core_r)]

set_volumes(s) ==
    [s EXCEPT !.LD = FDiv(s.L, FMul(s.r_channel, Two)),
              !.vol_fuel = FMul(s.A_fuel, s.L),
              !.vol_cool = FMul(s.A_flow, s.L),
              !.N_channels = FDiv(s.A_flow, FMul(Square(s.r_channel), Pi))]

set_conduction(s) ==
    [s EXCEPT !.radius_cond = FDiv(FSqrt(FDiv(s.A_fuel, s.N_channels)), Two),
              !.XS_A_cond = FMul(FMul(FMul(FMul(Pi, s.r_channel), s.L), Two),
                                 s.N_channels),
              !.D_e = FMul(Two, s.r_channel)]

set_geom(s) == set_conduction(set_volumes(set_areas(set_A_core(s))))

\* Flow.__init__, with the class attributes as the instance's defaults
Flow_init(cool_r, c, AR, power, fuel, cool, flowprops) ==
    set_geom([Q_therm |-> power, fuel |-> fuel, coolant |-> cool,
              fuelprops |-> phys_props[fuel],
              reflprops |-> phys_props["Carbon"],
              cladprops |-> phys_props["Inconel718"],
              AR |-> AR, c |-> c, r_channel |-> cool_r,
              fps |-> flowprops,
              dT |-> FSub(phys_props[fuel].T_center, flowprops.T),
              pitch |-> Zero, L |-> Zero, Vol_fuel |-> Zero, mass |-> Zero,
              A_fuel |-> Zero, A_flow |-> Zero, fuel_frac |-> F(75, -2),
              core_r |-> One, D_e |-> Zero, v |-> Zero, dp |-> Zero,
              h_bar |-> Zero, f |-> Zero, q_bar |-> Zero,
              q_per_channel |-> Zero, iterations |-> Zero,
              A_core |-> NoAttr, LD |-> NoAttr, vol_fuel |-> NoAttr,
              vol_cool |-> NoAttr, N_channels |-> NoAttr,
              radius_cond |-> NoAttr, XS_A_cond |-> NoAttr,
              rough |-> NoAttr, relrough |-> NoAttr, Re |-> NoAttr,
              Nu |-> NoAttr, R_cond |-> NoAttr, R_conv |-> NoAttr,
              gen_Q |-> NoAttr])

set_v(s) ==
    [s EXCEPT !.rough = s.cladprops.rough,
              !.relrough = FDiv(s.cladprops.rough, FMul(s.r_channel, Two)),
              !.v = FDiv(FDiv(s.fps.m_dot, s.A_flow), s.fps.rho)]

set_Re(s) == [s EXCEPT !.Re = FDiv(FMul(FMul(s.fps.rho, s.v), s.D_e), s.fps.mu)]

\* self.Nu, Nu_H, self.f = nd
assign_Nu_f(s, nd) == [s EXCEPT !.Nu = nd[1], !.f = nd[3]]

set_Nu_f(s) == assign_Nu_f(s, pipeflow_nd(s.Re, s.fps.Pr, s.LD, s.relrough))

set_h_bar(s) == [s EXCEPT !.h_bar = FDiv(FMul(s.Nu, s.fps.k_cool), s.D_e)]

characterize_flow(s) == set_h_bar(set_Nu_f(set_Re(set_v(s))))

set_R(s) ==
    [s EXCEPT !.R_cond = FDiv(s.radius_cond, FMul(s.fuelprops.k_fuel, s.XS_A_cond)),
              !.R_conv = FDiv(One,
                              FMul(FMul(FMul(FMul(FMul(s.h_bar, s.r_channel), Two),
                                             Pi), s.L),
                                   s.N_channels))]

set_gen_Q(s) ==
    [s EXCEPT !.gen_Q = FDiv(FMul(FDiv(s.dT, FAdd(s.R_cond, s.R_conv)), Two), Pi)]

get_q_per_channel(s) == set_gen_Q(set_R(s))

calc_dp(s) ==
    [s EXCEPT !.dp = FDiv(FMul(FMul(FMul(FMul(s.f, s.L), s.fps.rho), s.v), s.v),
                          FMul(Two, s.D_e))]

get_dp_constrained_Nchannels(s) ==
    FCeil(FDiv(s.fps.m_dot,
               FMul(FMul(s.A_flow, s.fps.rho),
                    FSqrt(FDiv(FMul(FMul(Two, s.D_e), s.fps.dp_limit),
                               FMul(FMul(s.f, s.L), s.fps.rho))))))

calc_reactor_mass(s) ==
    [s EXCEPT !.mass =
        FAdd(FAdd(FMul(s.vol_fuel, s.fuelprops.rho_fuel),
                  FMul(s.vol_cool, s.fps.rho)),
             FMul(FMul(FSub(Square(FMul(s.core_r, F(105, -2))), Square(s.core_r)),
                       s.L),
                  s.reflprops.rho))]

\* the criticality fit core_r = a * fuel_frac^b, by fuel and coolant
coeffs ==
    [UO2 |-> [CO2 |-> <<F(16271, -5), F(-8515, -4)>>,
              H2O |-> <<F(1706, -4), F(-61361, -5)>>],
     UW |-> [CO2 |-> <<F(15385, -5), F(-8309, -4)>>,
             H2O |-> <<F(16270, -5), F(-6487, -4)>>]]

\* the lookup coeffs[self.fuel][self.coolant] raises KeyError
KeyError(s) ==
    s.fuel \notin DOMAIN coeffs \/ s.coolant \notin DOMAIN coeffs[s.fuel]

constrain_radius(s) ==
    [s EXCEPT !.core_r = FMul(coeffs[s.fuel][s.coolant][1],
                              FPow(s.fuel_frac, coeffs[s.fuel][s.coolant][2]))]

\* compute_Q_from_guess returns (self.gen_Q - self.Q_therm)**2
Returns(s) ==
    [raised |-> FALSE, flow |-> s, value |-> Square(FSub(s.gen_Q, s.Q_therm))]

\* a variant that builds the geometry before the radius is constrained, so
\* the geometry and gen_Q come from the core_r of the call before
compute_Q_stale_radius(s, inp_guess) ==
    IF KeyError(s)
    THEN [raised |-> TRUE, flow |-> [s EXCEPT !.fuel_frac = inp_guess],
          value |-> NoAttr]
    ELSE Returns(get_q_per_channel(characterize_flow(constrain_radius(set_geom(
             [s EXCEPT !.fuel_frac = inp_guess])))))

\* a variant that falls back on the UO2-CO2 fit for a pair outside the table
compute_Q_default_coeffs(s, inp_guess) ==
    Returns(get_q_per_channel(characterize_flow(set_geom(
        [s EXCEPT !.fuel_frac = inp_guess,
                  !.core_r = IF KeyError(s)
                             THEN FMul(coeffs["UO2"]["CO2"][1],
                                       FPow(inp_guess, coeffs["UO2"]["CO2"][2]))
                             ELSE FMul(coeffs[s.fuel][s.coolant][1],
                                       FPow(inp_guess,
                                            coeffs[s.fuel][s.coolant][2]))]))))

\* the object after the call, whether the call raised, and the value returned
compute_Q_from_guess(s, inp_guess) ==
    IF KeyError(s)
    THEN [raised |-> TRUE, flow |-> [s EXCEPT !.fuel_frac = inp_guess],
          value |-> NoAttr]
    ELSE Returns(get_q_per_channel(characterize_flow(set_geom(constrain_radius(
             [s EXCEPT !.fuel_frac = inp_guess])))))

(***************************************************************************)
(* The program: oned_flow_modeling(analyze_flow) on a constructed Flow.    *)
(***************************************************************************)

VARIABLES
    flow,   \* the Flow object
    pc,     \* where oned_flow_modeling is: "find_n_channels", "adjust_dp"
            \* (entered), "dp_test" (at the loop test), "dp_body" (the test
            \* held), "calc_reactor_mass", "done" (returned), "raised" (left
            \* by an exception)
    res,    \* the bounded minimizer's result: best trial point x, its
            \* objective value fun, evaluations nfev, and success on return
    pf      \* one call of pipeflow_nd: its arguments and, once made, its result

vars == <<flow, pc, res, pf>>

\* most objective evaluations the minimizer makes in the model
MaxTrials == 2

\* constructor arguments
CoolRs == {F(5, -3)}

Powers == {F(1, 5), F(15, 4)}

Fuels == {"UO2", "UW", "UN"}

Coolants == {"CO2", "H2O", "He"}

\* flow properties: mass flow rates and allowable pressure drops
MDots == {F(1, 0), F(100, 0)}

DpLimits == {F(100, 0), F(5, 5)}

FlowProps ==
    {[m_dot |-> m, rho |-> F(95, 0), mu |-> F(4, -5), k_cool |-> F(87, -3),
      Pr |-> F(75, -2), T |-> F(950, 0), dp_limit |-> d] :
        m \in MDots, d \in DpLimits}

\* the fuel fractions the minimizer may try, inside its bounds (0.01, 1)
TrialPoints == {F(25, -2), F(5, -1), F(75, -2)}

\* arguments of pipeflow_nd
PfRe == {F(1000, 0), F(2300, 0), F(2700, 0), F(3000, 0), F(3001, 0), F(2, 4)}

PfPr == {F(5, -2), F(3, -1), F(75, -2), F(2, 0), F(5, 0)}

PfLD == {F(10, 0), F(27, 0), F(100, 0)}

PfRelrough == {Zero, F(15, -5)}

NoRes == [x |-> NoAttr, fun |-> NoAttr, nfev |-> 0, success |-> FALSE]

PfIdle == [Re |-> NoAttr, Pr |-> NoAttr, LD |-> NoAttr, relrough |-> NoAttr,
           called |-> FALSE, out |-> <<>>]

Init ==
    /\ flow \in {Flow_init(r, F(31, -5), One, q, fu, co, fp) :
                    r \in CoolRs, q \in Powers, fu \in Fuels, co \in Coolants,
                    fp \in FlowProps}
    /\ pc = "find_n_channels"
    /\ res = NoRes
    /\ pf = PfIdle

\* the minimizer's record of its evaluations after one more, at guess
Evaluated(r, guess, value) ==
    IF r.nfev = 0 \/ FLt(value, r.fun)
    THEN [r EXCEPT !.x = guess, !.fun = value, !.nfev = @ + 1]
    ELSE [r EXCEPT !.nfev = @ + 1]

\* the state after an evaluation whose outcome is out
TrialOutcome(guess, out) ==
    /\ flow' = out.flow
    /\ IF out.raised
       THEN pc' = "raised" /\ UNCHANGED res
       ELSE pc' = pc /\ res' = Evaluated(res, guess, out.value)

\* minimize_scalar evaluates _calc_n_channels_error(guess, flow)
Trial(guess) ==
    /\ pc = "find_n_channels"
    /\ res.nfev < MaxTrials
    /\ TrialOutcome(guess, compute_Q_from_guess(flow, guess))
    /\ UNCHANGED pf

\* minimize_scalar returns its result, converged or not; find_n_channels
\* drops it and returns
MinimizerReturns(success) ==
    /\ pc = "find_n_channels"
    /\ res.nfev >= 1
    /\ res' = [res EXCEPT !.success = success]
    /\ pc' = "adjust_dp"
    /\ UNCHANGED <<flow, pf>>

\* a variant of the loop test with the comparison the wrong way round
dp_under_limit(s) == FLt(s.dp, s.fps.dp_limit)

\* the loop test of adjust_dp
dp_over_limit(s) == FGt(s.dp, s.fps.dp_limit)

\* one pass through the loop body of adjust_dp
adjust_dp_body(s) ==
    calc_dp(characterize_flow(
        [s EXCEPT !.N_channels = get_dp_constrained_Nchannels(s)]))

\* a variant that runs the loop body once before the first test
adjust_dp_do_while(s) == adjust_dp_body(calc_dp(s))

\* adjust_dp up to its first loop test
adjust_dp_enter(s) == calc_dp(s)

AdjustDpEnter ==
    /\ pc = "adjust_dp"
    /\ flow' = adjust_dp_enter(flow)
    /\ pc' = "dp_test"
    /\ UNCHANGED <<res, pf>>

\* while self.dp > self.fps.dp_limit
AdjustDpTest ==
    /\ pc = "dp_test"
    /\ pc' = IF dp_over_limit(flow) THEN "dp_body" ELSE "calc_reactor_mass"
    /\ UNCHANGED <<flow, res, pf>>

AdjustDpBody ==
    /\ pc = "dp_body"
    /\ flow' = adjust_dp_body(flow)
    /\ pc' = "dp_test"
    /\ UNCHANGED <<res, pf>>

CalcReactorMass ==
    /\ pc = "calc_reactor_mass"
    /\ flow' = calc_reactor_mass(flow)
    /\ pc' = "done"
    /\ UNCHANGED <<res, pf>>

Next ==
    \/ \E guess \in TrialPoints : Trial(guess)
    \/ \E success \in BOOLEAN : MinimizerReturns(success)
    \/ AdjustDpEnter
    \/ AdjustDpTest
    \/ AdjustDpBody
    \/ CalcReactorMass

Spec == Init /\ [][Next]_vars

\* the values of pc
ProgramPoints ==
    {"find_n_channels", "adjust_dp", "dp_test", "dp_body", "calc_reactor_mass",
     "done", "raised"}

\* a call that has neither returned nor raised moves to another program point
Advance == pc \notin {"done", "raised"} /\ pc' \in ProgramPoints \ {pc}

\* the interpreter keeps running the call: minimize_scalar returns after
\* finitely many evaluations and every statement of adjust_dp completes
FairSpec == Spec /\ WF_pc(Advance)

(***************************************************************************)
(* The dispatcher pipeflow_nd on its own: one call on arguments drawn from *)
(* PfRe, PfPr, PfLD and PfRelrough.                                        *)
(***************************************************************************)

\* a Flow object nothing is done to
IdleFlow ==
    Flow_init(F(5, -3), F(31, -5), One, F(1, 5), "UW", "CO2",
              [m_dot |-> One, rho |-> F(95, 0), mu |-> F(4, -5),
               k_cool |-> F(87, -3), Pr |-> F(75, -2), T |-> F(950, 0),
               dp_limit |-> F(5, 5)])

InitPf ==
    /\ pf \in {[Re |-> re, Pr |-> pr, LD |-> ld, relrough |-> rr,
                called |-> FALSE, out |-> <<>>] :
                  re \in PfRe, pr \in PfPr, ld \in PfLD, rr \in PfRelrough}
    /\ flow = IdleFlow
    /\ pc = "idle"
    /\ res = NoRes

CallPipeflow ==
    /\ ~pf.called
    /\ pf' = [pf EXCEPT !.called = TRUE,
                        !.out = pipeflow_nd(pf.Re, pf.Pr, pf.LD, pf.relrough)]
    /\ UNCHANGED <<flow, pc, res>>

NextPf == CallPipeflow

SpecPf == InitPf /\ [][NextPf]_vars

(***************************************************************************)
(* The claims about the pressure-drop adjustment and the search.           *)
(***************************************************************************)

\* C1: adjust_dp terminates: from every state in which it is entered, also
\* one whose pressure drop exceeds fps.dp_limit, its loop reaches the exit
\* and calc_reactor_mass is the next thing to run.
C1_adjust_dp_terminates == (pc = "adjust_dp") ~> (pc = "calc_reactor_mass")

\* adjust_dp has returned
AdjustDpReturned == pc \in {"calc_reactor_mass", "done"}

\* C2: whenever adjust_dp has returned, dp <= fps.dp_limit, and dp is the
\* Darcy value f*L*rho*v*v/(2*D_e) of the f, L, v and D_e in the state.
C2_dp_within_limit ==
    AdjustDpReturned =>
        /\ FLe(flow.dp, flow.fps.dp_limit)
        /\ flow.dp = FDiv(FMul(FMul(FMul(FMul(flow.f, flow.L), flow.fps.rho),
                                    flow.v), flow.v),
                          FMul(Two, flow.D_e))

\* oned_flow_modeling has returned with a pressure drop computed from a
\* moving coolant
C2_returned_within_limit ==
    /\ pc = "done"
    /\ flow.dp.m > 0
    /\ FLe(flow.dp, flow.fps.dp_limit)

\* the channel count adjust_dp is entered with: the one set_geom derived,
\* which nothing between set_geom and adjust_dp writes
N_channels_at_entry(s) == FDiv(s.A_flow, FMul(Square(s.r_channel), Pi))

\* adjust_dp is at or in its loop, or has returned
InOrAfterAdjustDp ==
    pc \in {"dp_test", "dp_body", "calc_reactor_mass", "done"}

\* C3: adjust_dp never lowers the channel count: after every loop iteration
\* and on return, N_channels >= the N_channels adjust_dp was entered with.
C3_channel_count_not_lowered ==
    InOrAfterAdjustDp => FGe(flow.N_channels, N_channels_at_entry(flow))

\* a float with no fractional part
IsWhole(a) == a.e >= 0 \/ (-a.e < Prec /\ a.m % Pow10(-a.e) = 0)

\* C4: the channel count read after oned_flow_modeling has returned is a
\* whole number >= 1, also when the loop body of adjust_dp never ran.
C4_channel_count_whole ==
    pc = "done" => IsWhole(flow.N_channels) /\ FGe(flow.N_channels, One)

\* C5: oned_flow_modeling does not return normally when the bounded
\* minimizer did not converge: normal completion implies its success.
C5_no_silent_non_convergence == pc = "done" => res.success

(***************************************************************************)
(* The claims about the dispatcher, the replay of a finished design, the   *)
(* radius constraint and the state the search leaves.                      *)
(***************************************************************************)

\* C6: pipeflow_nd(3000, ...) is exactly (Nu, Nu, f) of pipeflow_turbulent
\* at 3000, pipeflow_nd(2300, ...) is exactly pipeflow_laminar at 2300, above
\* 3000 the result is the turbulent one alone and below 2300 the laminar one
\* alone.
C6_regime_continuity ==
    pf.called =>
        /\ FGe(pf.Re, F(3000, 0)) =>
               pf.out = Turbulent3(pipeflow_turbulent(pf.Re, pf.Pr, pf.LD,
                                                      pf.relrough))
        /\ FLe(pf.Re, F(2300, 0)) =>
               pf.out = pipeflow_laminar(pf.Re, pf.Pr, pf.LD, pf.relrough)

\* test_rand_flow_calc: a fresh Flow from the constructor inputs of s, given
\* the fuel_frac and core_r of s, through set_geom, characterize_flow and
\* get_q_per_channel
Replay(s) ==
    get_q_per_channel(characterize_flow(set_geom(
        [Flow_init(s.r_channel, s.c, s.AR, s.Q_therm, s.fuel, s.coolant, s.fps)
            EXCEPT !.fuel_frac = s.fuel_frac, !.core_r = s.core_r])))

\* find_n_channels has returned
SearchReturned ==
    pc \in {"adjust_dp", "dp_test", "dp_body", "calc_reactor_mass", "done"}

\* C7: from the return of find_n_channels on, through adjust_dp and
\* calc_reactor_mass to the return of oned_flow_modeling, the gen_Q in the
\* state is the gen_Q a replay of the state's fuel_frac and core_r yields.
C7_replay_consistent == SearchReturned => flow.gen_Q = Replay(flow).gen_Q

\* a design finished after more than one trial, the last of them not the best
C7_finished_after_trials ==
    /\ pc = "done"
    /\ res.nfev >= 2
    /\ flow.fuel_frac # res.x

\* C8: for a (fuel, coolant) pair in the table, core_r = a * fuel_frac^b once
\* a trial has run and no lookup error is raised; for a pair outside it the
\* first trial raises, nothing runs after it, and core_r is still the class
\* attribute, never assigned.
C8_unsupported_pair_fatal ==
    IF KeyError(flow)
    THEN /\ pc \in {"find_n_channels", "raised"}
         /\ pc = "find_n_channels" => res.nfev = 0
         /\ flow.core_r = One
    ELSE /\ pc # "raised"
         /\ res.nfev >= 1 =>
                flow.core_r = FMul(coeffs[flow.fuel][flow.coolant][1],
                                   FPow(flow.fuel_frac,
                                        coeffs[flow.fuel][flow.coolant][2]))

\* the lookup error has left oned_flow_modeling for a helium-cooled core
C8_lookup_error_raised ==
    /\ pc = "raised"
    /\ flow.coolant = "He"
    /\ flow.fuel_frac # F(75, -2)

\* C9: entered with a pressure drop within the limit, adjust_dp writes dp
\* and nothing else, and goes from its loop test to its return without
\* running the loop body.
C9_no_action_within_limit ==
    [][/\ (pc = "adjust_dp" /\ ~dp_over_limit(calc_dp(flow))) =>
              (flow' = [flow EXCEPT !.dp = flow'.dp] /\ pc' = "dp_test")
       /\ (pc = "dp_test" /\ ~dp_over_limit(flow)) =>
              (flow' = flow /\ pc' = "calc_reactor_mass")]_vars

\* adjust_dp has returned from a state within the limit, the channel count
\* still the one it was entered with
C9_returned_untouched ==
    /\ pc = "calc_reactor_mass"
    /\ ~dp_over_limit(flow)
    /\ flow.N_channels = N_channels_at_entry(flow)

\* C10: when find_n_channels has returned, the state is that of the best
\* trial: fuel_frac is the minimizer's optimum x and the squared error of
\* gen_Q is its smallest objective value.
C10_state_is_optimum ==
    pc = "adjust_dp" =>
        /\ flow.fuel_frac = res.x
        /\ Square(FSub(flow.gen_Q, flow.Q_therm)) = res.fun

(***************************************************************************)
(* The claim about the channel count and the geometry derived from it.     *)
(***************************************************************************)

\* the object went through set_geom in a trial and no exception left the call
GeometrySet == res.nfev >= 1 /\ pc # "raised"

\* a and b agree to one part in a hundred, far more than rounding moves them
Near(a, b) ==
    FLe(FSub(a, b), FMul(F(1, -2), b)) /\ FLe(FSub(b, a), FMul(F(1, -2), b))

\* the velocity of m_dot through N_channels channels of radius r_channel
channel_velocity(s) ==
    FDiv(s.fps.m_dot,
         FMul(s.fps.rho, FMul(s.N_channels, FMul(Square(s.r_channel), Pi))))

\* C11: in every state after set_geom, after every iteration of adjust_dp
\* and on return, the channel count is the one the flow area holds,
\* N_channels = A_flow / (pi r_channel^2), the velocity is that of m_dot
\* through N_channels channels, and the conduction radius and the
\* conduction surface are those derived from the N_channels in the state.
C11_channels_match_geometry ==
    GeometrySet =>
        /\ flow.N_channels = FDiv(flow.A_flow, FMul(Square(flow.r_channel), Pi))
        /\ Near(flow.v, channel_velocity(flow))
        /\ flow.radius_cond = FDiv(FSqrt(FDiv(flow.A_fuel, flow.N_channels)), Two)
        /\ flow.XS_A_cond = FMul(FMul(FMul(FMul(Pi, flow.r_channel), flow.L), Two),
                                 flow.N_channels)

====
